---- MODULE Spec2Model ----
(***************************************************************************)
(* Group / membership / settlement lifecycle of the copy-trading backend.  *)
(*                                                                         *)
(* The document store is the shared state: collections users, members,     *)
(* trading_accounts, groups and settlements.  Every request handler is an  *)
(* action; a handler whose writes are separated by other store round trips *)
(* and whose intermediate state a claim is about (settlement approval) is  *)
(* split at those writes.                                                  *)
(*                                                                         *)
(* Identifiers are abstract: a group document is the same Group whether a  *)
(* handler addresses it by _id or by its group_id field, and a user is the *)
(* same User whether a handler holds the id or the user document; a field   *)
(* that two handlers spell differently (profit_sharing_percent and         *)
(* profit_sharing_percentage, auto_paused and auto_pause_triggered) is one  *)
(* field.                                                                  *)
(***************************************************************************)
EXTENDS Integers, Sequences, FiniteSets, TLC

VARIABLES users, members, accounts, groups, settlements, inflight, last, nops,
          connections, streams

\* the realtime service: its registries of subscriber queues, and the event
\* streams (each with the queue it created) opened so far
hub == <<connections, streams>>

vars == <<users, members, accounts, groups, settlements, inflight, last, nops,
          connections, streams>>

NULL == "null"

Users == {"u1", "u2"}

Groups == {"gA", "gB"}

\* api/groups.py create_group: every group gets its own referral code and API key
referral_code == ("gA" :> "refA") @@ ("gB" :> "refB")

api_key == ("gA" :> "keyA") @@ ("gB" :> "keyB")

\* the codes a client can send: every issued code and one that matches no group
Codes == {"refA", "refB", "keyA", "keyB", "bad"}

\* users.role, read by verify_admin_or_manager
role == ("u1" :> "user") @@ ("u2" :> "admin")

\* number of sub-steps of the graceful switch (members, trading_accounts, users)
SwitchSteps == 3

\* services/settlement_service.py get_group_profit_from_trade_copier: the copy
\* engine's answer for every group and period
mock_profit == 15000

\* values an edit of a group's profit_sharing_percent can set
Percents == {10, 80}

TradingStatuses == {"active", "paused", "suspended"}

\* number of settlements stored in one explored history
MaxSettlements == 2

\* number of requests served in one explored history
MaxOps == 4

----------------------------------------------------------------------------
(* Helpers *)

\* db.groups.find_one({"$or": [{"referral_code": c}, {"api_key": c}]})
FindGroupByCode(c) ==
    LET hit == {g \in Groups : referral_code[g] = c \/ api_key[g] = c}
    IN IF hit = {} THEN NULL ELSE CHOOSE g \in hit : TRUE

\* db.groups.find_one({"api_key": k})
FindGroupByApiKey(k) ==
    LET hit == {g \in Groups : api_key[g] = k}
    IN IF hit = {} THEN NULL ELSE CHOOSE g \in hit : TRUE

\* db.members.find_one({"user_id": u, "group_id": g}): index of the first match, 0 if none
FindMember(ms, u, g) ==
    LET hit == {i \in DOMAIN ms : ms[i].user_id = u /\ ms[i].group_id = g}
    IN IF hit = {} THEN 0 ELSE CHOOSE i \in hit : \A j \in hit : i <= j

\* db.members.update_many({user_id, group_id, status != left}, {$set: {status: left}})
MarkMembersLeft(ms, u, g) ==
    [i \in DOMAIN ms |->
        IF ms[i].user_id = u /\ ms[i].group_id = g /\ ms[i].status # "left"
        THEN [ms[i] EXCEPT !.status = "left"] ELSE ms[i]]

\* db.trading_accounts.update_many({user_id, group_id}, {$set: {status: inactive}})
DeactivateAccounts(as, u, g) ==
    [i \in DOMAIN as |->
        IF as[i].user_id = u /\ as[i].group_id = g
        THEN [as[i] EXCEPT !.status = "inactive"] ELSE as[i]]

\* the graceful leave of the previous group inside the join handlers: the three
\* writes run in order inside one try block whose except clause is `pass`, so an
\* exception in write k leaves writes 1..k-1 applied and the handler continues.
\* done = number of writes applied (SwitchSteps when nothing raised).
SwitchMembers(u, done) ==
    IF users[u].group_id # NULL /\ done >= 1
    THEN MarkMembersLeft(members, u, users[u].group_id) ELSE members

SwitchAccounts(u, done) ==
    IF users[u].group_id # NULL /\ done >= 2
    THEN DeactivateAccounts(accounts, u, users[u].group_id) ELSE accounts

SwitchUsers(u, done) ==
    IF users[u].group_id # NULL /\ done >= 3
    THEN [users EXCEPT ![u].group_id = NULL] ELSE users

\* groups in which u has a Membership with status active
ActiveGroupsOf(ms, u) ==
    {ms[i].group_id : i \in {j \in DOMAIN ms : ms[j].user_id = u /\ ms[j].status = "active"}}

\* what an approval found when it started: the settlement's status and flag
\* and its group's trading status (NoPre when the id matched no settlement)
NoPre == [status |-> NULL, auto_pause_triggered |-> FALSE, trading_status |-> NULL]

PreOf(ss, gs, sid) ==
    IF sid \in DOMAIN ss
    THEN [status |-> ss[sid].status, auto_pause_triggered |-> ss[sid].auto_pause_triggered,
          trading_status |-> gs[ss[sid].group_id].trading_status]
    ELSE NoPre

\* record of the handler that completed last: what was called, with what,
\* how it answered, what the caller's state was before, and the writes and
\* publishes it performed, in program order
Done(op, u, g, res, eff) ==
    [op |-> op, user |-> u, group |-> g, result |-> res,
     prev_group |-> IF u \in Users THEN users[u].group_id ELSE NULL,
     prev_active |-> IF u \in Users THEN ActiveGroupsOf(members, u) ELSE {},
     member |-> 0, settlement |-> 0, pre |-> NoPre, effects |-> eff]

\* one more request served
Tick == nops < MaxOps /\ nops' = nops + 1

W(what) == [what |-> what, kind |-> "write"]

P(target, event) == [what |-> event, kind |-> "publish", target |-> target]

----------------------------------------------------------------------------
Init ==
    /\ users = [u \in Users |-> [group_id |-> NULL, ib_status |-> "pending"]]
    /\ members = <<>>
    /\ accounts = <<>>
    /\ groups = [g \in Groups |->
                    [trading_status |-> "active", profit_sharing_percent |-> 80,
                     total_members |-> 0, active_members |-> 0]]
    /\ settlements = <<>>
    /\ inflight = {}
    /\ nops = 0
    /\ connections = [admin_connections |-> [u \in Users |-> {}],
                      user_connections |-> [u \in Users |-> {}],
                      master_connections |-> [u \in Users |-> {}]]
    /\ streams = <<>>
    /\ last = [op |-> "none", user |-> NULL, group |-> NULL, result |-> "none",
               prev_group |-> NULL, prev_active |-> {}, member |-> 0, settlement |-> 0,
               pre |-> NoPre, effects |-> <<>>]

----------------------------------------------------------------------------
(* Handler programs: the store calls and publishes a handler performs once   *)
(* its checks have passed, in program order.  A store call that raises ends  *)
(* the handler there (the outer except turns it into a 500 response).        *)

R(what) == [what |-> what, kind |-> "read"]

\* a join that announces the member before the store has the write
JoinByReferralNotifyFirst(u) ==
    <<P(u, "group_joined"), P("masters", "new_group_member"), W("users.group_id"), R("users")>>

\* api/groups.py join_group_by_referral, lines 269-307
JoinByReferralProgram(u) ==
    <<W("users.group_id"), R("users"), P(u, "group_joined"), P("masters", "new_group_member")>>

\* api/groups.py join_group_by_api_key, lines 378-399
JoinByApiKeyProgram(u) ==
    <<W("users.group_id"), P(u, "group_joined")>>

\* positions of a program at which a store call can raise; 0 = nothing raises
FaultPoints(prog) == {0} \cup {i \in DOMAIN prog : prog[i].kind # "publish"}

\* the part of a program that ran when the store call at position f raised
Ran(prog, f) == IF f = 0 THEN prog ELSE SubSeq(prog, 1, f - 1)

Wrote(eff, what) == \E i \in DOMAIN eff : eff[i] = W(what)

\* the writes of the graceful switch that were applied
SwitchEffects(u, done) ==
    IF users[u].group_id = NULL THEN <<>>
    ELSE SubSeq(<<W("members.status"), W("trading_accounts.status"), W("users.group_id.unset")>>,
                1, done)

----------------------------------------------------------------------------
(* Realtime hub: services/realtime_service.py.  A registry maps a user id   *)
(* to the set of queues of that user's open event streams; a key with the   *)
(* empty set stands for an absent key.  A queue is named by the position of *)
(* its stream in streams.  The service runs in one event loop, so a         *)
(* coroutine runs without interleaving up to an await that suspends.        *)

\* a queue created with a capacity of one event
BoundedQueue == [maxsize |-> 1, items |-> <<>>]

\* event_stream: queue = asyncio.Queue(); maxsize 0 means no capacity limit
NewQueue == [maxsize |-> 0, items |-> <<>>]

\* a put that takes maxsize 0 for a capacity of no events
put_suspends_at_maxsize(queue) == Len(queue.items) >= queue.maxsize

\* await queue.put(...) suspends the caller exactly when the queue is full
put_suspends(queue) == queue.maxsize > 0 /\ Len(queue.items) >= queue.maxsize

\* the registry a role's connections are kept in
registry_of(user_role) ==
    IF user_role = "admin" THEN "admin_connections"
    ELSE IF user_role = "master" THEN "master_connections"
    ELSE "user_connections"

\* a registration that keeps one queue per subscriber
add_single_connection(conns, user_id, user_role, queue) ==
    [conns EXCEPT ![registry_of(user_role)][user_id] = {queue}]

add_connection(conns, user_id, user_role, queue) ==
    [conns EXCEPT ![registry_of(user_role)][user_id] = @ \cup {queue}]

\* a removal that looks for the queue among the user connections only
remove_user_connection(conns, user_id, user_role, queue) ==
    IF conns.user_connections[user_id] # {}
    THEN [conns EXCEPT !.user_connections[user_id] = @ \ {queue}]
    ELSE conns

remove_connection(conns, user_id, user_role, queue) ==
    IF user_role = "admin" /\ conns.admin_connections[user_id] # {}
    THEN [conns EXCEPT !.admin_connections[user_id] = @ \ {queue}]
    ELSE IF user_role = "master" /\ conns.master_connections[user_id] # {}
    THEN [conns EXCEPT !.master_connections[user_id] = @ \ {queue}]
    ELSE IF conns.user_connections[user_id] # {}
    THEN [conns EXCEPT !.user_connections[user_id] = @ \ {queue}]
    ELSE conns

\* for queue in queues.copy(): await queue.put(message), lowest queue first;
\* a put that suspends leaves the fan-out in progress at that queue
RECURSIVE put_each(_, _, _)
put_each(st, queues, message) ==
    IF queues = {} THEN [streams |-> st, completed |-> TRUE]
    ELSE LET queue == CHOOSE x \in queues : \A y \in queues : x <= y
         IN IF put_suspends(st[queue].queue)
            THEN [streams |-> st, completed |-> FALSE]
            ELSE put_each([st EXCEPT ![queue].queue.items = Append(@, message)],
                          queues \ {queue}, message)

\* every queue of a registry
all_queues(registry) == UNION {registry[user_id] : user_id \in Users}

notify_admins(st, conns, event_type) ==
    put_each(st, all_queues(conns.admin_connections), event_type)

notify_user(st, conns, user_id, event_type) ==
    put_each(st, conns.user_connections[user_id], event_type)

notify_masters(st, conns, event_type) ==
    put_each(st, all_queues(conns.master_connections), event_type)

\* "In a real implementation, we'd query the database for group members.
\* For now, send to all user connections": group_id is not used
notify_group_members(st, conns, group_id, event_type) ==
    put_each(st, all_queues(conns.user_connections), event_type)

\* the publishes of a handler's program, in program order; the handler awaits
\* each one, so a fan-out left in progress keeps the handler from going on
RECURSIVE notify_all(_, _, _)
notify_all(st, conns, eff) ==
    IF eff = <<>> THEN [streams |-> st, completed |-> TRUE]
    ELSE LET e == Head(eff)
             sent == IF e.kind # "publish" THEN [streams |-> st, completed |-> TRUE]
                     ELSE IF e.target = "admins" THEN notify_admins(st, conns, e.what)
                     ELSE IF e.target = "masters" THEN notify_masters(st, conns, e.what)
                     ELSE notify_user(st, conns, e.target, e.what)
         IN IF sent.completed THEN notify_all(sent.streams, conns, Tail(eff)) ELSE sent

\* how a handler whose store call at f raised, or did not, answers
answer(f, sent) == IF f # 0 THEN "error" ELSE IF sent.completed THEN "ok" ELSE "suspended"

----------------------------------------------------------------------------
(* Membership lifecycle: api/groups.py *)

\* the tail shared by the two self-service join handlers: graceful switch, IB
\* gate, users.group_id write, publishes
JoinTail(op, u, g, done, prog, f) ==
    LET us1 == SwitchUsers(u, done)
        eff == SwitchEffects(u, done) \o Ran(prog, f)
    IN /\ members' = SwitchMembers(u, done)
       /\ accounts' = SwitchAccounts(u, done)
       /\ IF users[u].ib_status # "approved"
          THEN /\ f = 0
               /\ users' = us1
               /\ last' = Done(op, u, g, "IBNotApproved", SwitchEffects(u, done))
               /\ UNCHANGED hub
          ELSE LET sent == notify_all(streams, connections, Ran(prog, f))
               IN /\ users' = IF Wrote(Ran(prog, f), "users.group_id")
                               THEN [us1 EXCEPT ![u].group_id = g] ELSE us1
                  /\ streams' = sent.streams
                  /\ last' = Done(op, u, g, answer(f, sent), eff)
                  /\ UNCHANGED connections
       /\ UNCHANGED <<groups, settlements, inflight>>

join_group_by_referral(u, c, done, f) ==
    LET g == FindGroupByCode(c)
    IN /\ Tick
       /\ f \in FaultPoints(JoinByReferralProgram(u))
       /\ users[u].group_id = NULL => done = SwitchSteps
       /\ IF g = NULL
          THEN /\ done = SwitchSteps /\ f = 0
               /\ last' = Done("join_group_by_referral", u, NULL, "GroupNotFound", <<>>)
               /\ UNCHANGED <<users, members, accounts, groups, settlements, inflight, hub>>
          ELSE JoinTail("join_group_by_referral", u, g, done, JoinByReferralProgram(u), f)

join_group_by_api_key(u, k, done, f) ==
    LET g == FindGroupByApiKey(k)
    IN /\ Tick
       /\ f \in FaultPoints(JoinByApiKeyProgram(u))
       /\ users[u].group_id = NULL => done = SwitchSteps
       /\ IF g = NULL
          THEN /\ done = SwitchSteps /\ f = 0
               /\ last' = Done("join_group_by_api_key", u, NULL, "GroupNotFound", <<>>)
               /\ UNCHANGED <<users, members, accounts, groups, settlements, inflight, hub>>
          ELSE JoinTail("join_group_by_api_key", u, g, done, JoinByApiKeyProgram(u), f)

\* [ADMIN ONLY] direct join: the caller itself becomes the member
join_group(u, g) ==
    /\ Tick /\ UNCHANGED hub
    /\ role[u] \in {"admin", "group_manager"}
    /\ IF FindMember(members, u, g) # 0
       THEN /\ last' = Done("join_group", u, g, "AlreadyMember", <<>>)
            /\ UNCHANGED <<users, members, accounts, groups, settlements, inflight>>
       ELSE /\ accounts' = Append(accounts,
                              [user_id |-> u, group_id |-> g, status |-> "pending"])
            /\ members' = Append(members,
                              [user_id |-> u, group_id |-> g,
                               account_id |-> Len(accounts) + 1, status |-> "pending",
                               approved_at |-> 0, approved_by |-> NULL])
            /\ last' = Done("join_group", u, g, "ok", <<>>)
            /\ UNCHANGED <<users, groups, settlements, inflight>>

leave_current_group(u) ==
    /\ Tick /\ UNCHANGED hub
    /\ IF users[u].group_id = NULL
       THEN /\ last' = Done("leave_current_group", u, NULL, "NotInGroup", <<>>)
            /\ UNCHANGED users
       ELSE /\ users' = [users EXCEPT ![u].group_id = NULL]
            /\ last' = Done("leave_current_group", u, users[u].group_id, "ok", <<>>)
    /\ UNCHANGED <<members, accounts, groups, settlements, inflight>>

leave_group(u, g) ==
    LET m == FindMember(members, u, g)
    IN /\ Tick /\ UNCHANGED hub
       /\ IF m = 0
          THEN /\ last' = Done("leave_group", u, g, "NotFound", <<>>)
               /\ UNCHANGED <<members, accounts>>
          ELSE /\ members' = [members EXCEPT ![m].status = "left"]
               /\ accounts' = IF members[m].account_id # 0
                              THEN [accounts EXCEPT ![members[m].account_id].status = "inactive"]
                              ELSE accounts
               /\ last' = Done("leave_group", u, g, "ok", <<>>)
       /\ UNCHANGED <<users, groups, settlements, inflight>>

\* member ids a caller can name: every stored member and one id that is absent
MemberIds == 1 .. (Len(members) + 1)

\* the $set of approve_member: status, approved_at = now, approved_by = caller;
\* the time of a request is its ordinal (0 stands for None)
ApprovedMember(md, u) ==
    [md EXCEPT !.status = "active", !.approved_at = nops + 1, !.approved_by = u]

\* the $set of reject_member (rejected_at, rejected_by and the reason are not kept)
RejectedMember(md, u) == [md EXCEPT !.status = "rejected"]

\* PATCH /members/{member_id}/approve and /reject: an unconditional $set of the
\* status, then the linked trading account follows
SetMemberStatus(op, u, m, mstatus, astatus) ==
    /\ Tick /\ UNCHANGED hub
    /\ role[u] \in {"admin", "group_manager"}
    /\ IF m \notin DOMAIN members
       THEN /\ last' = Done(op, u, NULL, "NotFound", <<>>)
            /\ UNCHANGED <<members, accounts>>
       ELSE /\ members' = [members EXCEPT ![m] = IF mstatus = "active"
                                                 THEN ApprovedMember(@, u)
                                                 ELSE RejectedMember(@, u)]
            /\ accounts' = IF members[m].account_id # 0
                           THEN [accounts EXCEPT ![members[m].account_id].status = astatus]
                           ELSE accounts
            /\ last' = [Done(op, u, members[m].group_id, "ok", <<>>) EXCEPT !.member = m]
    /\ UNCHANGED <<users, groups, settlements, inflight>>

approve_member(u, m) == SetMemberStatus("approve_member", u, m, "active", "approved")

reject_member(u, m) == SetMemberStatus("reject_member", u, m, "rejected", "rejected")

----------------------------------------------------------------------------
(* services/member_service.py *)

\* len(fetch_documents(members, {group_id, status != deleted})) and
\* len(fetch_documents(members, {group_id, status == active}))
update_group_member_count(gs, ms, g) ==
    [gs EXCEPT ![g].total_members =
                   Cardinality({i \in DOMAIN ms : ms[i].group_id = g /\ ms[i].status # "deleted"}),
               ![g].active_members =
                   Cardinality({i \in DOMAIN ms : ms[i].group_id = g /\ ms[i].status = "active"})]

\* POST /members: an admin or manager adds user u to group g; the record is
\* created active
add_member_to_group(by, u, g) ==
    /\ Tick /\ UNCHANGED hub
    /\ role[by] \in {"admin", "group_manager"}
    /\ IF \E i \in DOMAIN members :
             members[i].user_id = u /\ members[i].group_id = g /\ members[i].status # "deleted"
       THEN /\ last' = Done("add_member_to_group", u, g, "AlreadyMember", <<>>)
            /\ UNCHANGED <<members, groups>>
       ELSE LET ms1 == Append(members, [user_id |-> u, group_id |-> g,
                                         account_id |-> 0, status |-> "active",
                                         approved_at |-> 0, approved_by |-> NULL])
            IN /\ members' = ms1
               /\ groups' = update_group_member_count(groups, ms1, g)
               /\ last' = Done("add_member_to_group", u, g, "ok", <<>>)
    /\ UNCHANGED <<users, accounts, settlements, inflight>>

----------------------------------------------------------------------------
(* services/mongodb_service.py *)

AccountStatuses == {"approved", "rejected"}

\* account approval by an admin or a group leader: sets the account's status
\* and group and, when approved with a group, the owner's users.group_id
update_account_status(a, st, g) ==
    /\ Tick /\ UNCHANGED hub
    /\ IF a \notin DOMAIN accounts
       THEN /\ last' = Done("update_account_status", NULL, g, "NotFound", <<>>)
            /\ UNCHANGED <<accounts, users>>
       ELSE LET u == accounts[a].user_id
            IN /\ accounts' = [accounts EXCEPT ![a].status = st,
                                              ![a].group_id = IF g # NULL THEN g ELSE @]
               /\ users' = IF g # NULL /\ st = "approved"
                           THEN [users EXCEPT ![u].group_id = g] ELSE users
               /\ last' = Done("update_account_status", u, g, "ok", <<>>)
    /\ UNCHANGED <<members, groups, settlements, inflight>>

----------------------------------------------------------------------------
(* IB proof workflow: api/admin.py, api/user_panel.py *)

\* api/admin.py approve_ib_proof, lines 350-409
ApproveIbProgram(u) ==
    <<W("users.ib_status"), R("users"), P(u, "ib_approved"), P("admins", "ib_proof_processed")>>

\* api/admin.py reject_ib_proof, lines 437-498
RejectIbProgram(u) ==
    <<W("users.ib_status"), R("users"), P(u, "ib_rejected"), P("admins", "ib_proof_processed")>>

\* api/user_panel.py upload_ib_change_proof, lines 284-306
UploadIbProgram(u) ==
    <<W("users.ib_status"), R("users"), P("admins", "new_ib_proof")>>

SetIbStatus(op, u, prog, f, ib) ==
    /\ Tick
    /\ f \in FaultPoints(prog)
    /\ users' = IF Wrote(Ran(prog, f), "users.ib_status")
                THEN [users EXCEPT ![u].ib_status = ib] ELSE users
    /\ LET sent == notify_all(streams, connections, Ran(prog, f))
       IN /\ streams' = sent.streams
          /\ last' = Done(op, u, NULL, answer(f, sent), Ran(prog, f))
    /\ UNCHANGED <<members, accounts, groups, settlements, inflight, connections>>

approve_ib_proof(u, f) == SetIbStatus("approve_ib_proof", u, ApproveIbProgram(u), f, "approved")

reject_ib_proof(u, f) == SetIbStatus("reject_ib_proof", u, RejectIbProgram(u), f, "rejected")

upload_ib_change_proof(u, f) ==
    SetIbStatus("upload_ib_change_proof", u, UploadIbProgram(u), f, "pending")

----------------------------------------------------------------------------
(* Membership lifecycle as a whole *)

Next ==
    \/ \E u \in Users, c \in Codes, done \in 0 .. SwitchSteps, f \in 0 .. 2 :
          join_group_by_referral(u, c, done, f)
    \/ \E u \in Users, c \in Codes, done \in 0 .. SwitchSteps, f \in 0 .. 1 :
          join_group_by_api_key(u, c, done, f)
    \/ \E u \in Users, g \in Groups : join_group(u, g)
    \/ \E u \in Users : leave_current_group(u)
    \/ \E u \in Users, g \in Groups : leave_group(u, g)
    \/ \E u \in Users, m \in MemberIds : approve_member(u, m)
    \/ \E u \in Users, m \in MemberIds : reject_member(u, m)
    \/ \E by \in Users, u \in Users, g \in Groups : add_member_to_group(by, u, g)
    \/ \E a \in 1 .. (Len(accounts) + 1), st \in AccountStatuses, g \in Groups \cup {NULL} :
          update_account_status(a, st, g)
    \/ \E u \in Users, f \in 0 .. 2 : approve_ib_proof(u, f)
    \/ \E u \in Users, f \in 0 .. 2 : reject_ib_proof(u, f)
    \/ \E u \in Users, f \in 0 .. 2 : upload_ib_change_proof(u, f)

Spec == Init /\ [][Next]_vars

----------------------------------------------------------------------------
(* Settlement lifecycle: services/settlement_service.py, group_service.py *)

\* total_profit * (profit_sharing_percent / 100); exact in integers because
\* 100 divides mock_profit
profit_share_amount(total_profit, percent) == (total_profit * percent) \div 100

\* the days a settlement period can start and end on
Days == {1, 2}

\* calculate_profit_sharing: the figures for a group as it is now, for the
\* period it was asked for
calculate_profit_sharing(g, period_from, period_to) ==
    [total_profit |-> mock_profit,
     profit_share_percent |-> groups[g].profit_sharing_percent,
     amount_due |-> profit_share_amount(mock_profit, groups[g].profit_sharing_percent),
     period_from |-> period_from, period_to |-> period_to]

\* the settlement record submit_settlement builds from the request and the
\* calculation
settlement_record(g, period_from, period_to, calc_data) ==
    [group_id |-> g,
     period_from |-> period_from, period_to |-> period_to,
     total_profit |-> calc_data.total_profit,
     profit_share_percent |-> calc_data.profit_share_percent,
     amount_due |-> calc_data.amount_due,
     status |-> "pending", approved_by |-> NULL,
     auto_pause_triggered |-> FALSE, resume_time |-> NULL]

submit_settlement(u, g, period_from, period_to) ==
    /\ Tick /\ UNCHANGED hub
    /\ Len(settlements) < MaxSettlements
    /\ settlements' = Append(settlements,
                             settlement_record(g, period_from, period_to,
                                               calculate_profit_sharing(g, period_from, period_to)))
    /\ last' = [Done("submit_settlement", u, g, "ok", <<>>) EXCEPT !.settlement = Len(settlements) + 1]
    /\ UNCHANGED <<users, members, accounts, groups, inflight>>

\* settlement ids a caller can name: every stored settlement and one absent id
SettlementIds == 1 .. (Len(settlements) + 1)

\* an approval that also refreshes the stored figures from the group as it is now
approve_settlement_refresh(ss, sid, st, admin) ==
    IF sid \in DOMAIN ss
    THEN [ss EXCEPT ![sid].status = st, ![sid].approved_by = admin,
                    ![sid].profit_share_percent = groups[ss[sid].group_id].profit_sharing_percent,
                    ![sid].amount_due = profit_share_amount(ss[sid].total_profit,
                                            groups[ss[sid].group_id].profit_sharing_percent)]
    ELSE ss

\* update_document(settlements, settlement_id, {status, approved_by, ...}): a
\* $set on whatever document the id matches, none included
approve_settlement_update(ss, sid, st, admin) ==
    IF sid \in DOMAIN ss
    THEN [ss EXCEPT ![sid].status = st, ![sid].approved_by = admin]
    ELSE ss

\* PUT /settlements/{id}/approve, first store write: the settlement's status.
\* With status approved the handler goes on to resume the group; with any
\* other status it answers "Failed to update settlement".
approve_settlement(u, sid, st) ==
    /\ Tick /\ UNCHANGED hub
    /\ role[u] = "admin"
    /\ st \in {"approved", "rejected"}
    /\ \A t \in inflight : t.by # u
    /\ settlements' = approve_settlement_update(settlements, sid, st, u)
    /\ IF st = "approved"
       THEN /\ inflight' = inflight \cup {[by |-> u, settlement_id |-> sid,
                                             pre |-> PreOf(settlements, groups, sid)]}
            /\ UNCHANGED last
       ELSE /\ last' = [Done("approve_settlement", u, NULL, "error", <<>>)
                           EXCEPT !.settlement = sid, !.pre = PreOf(settlements, groups, sid)]
            /\ UNCHANGED inflight
    /\ UNCHANGED <<users, members, accounts, groups>>

\* group_service.toggle_trading_status(group_id, status, user_id): the group is
\* looked up, then its trading_status is $set
toggle_trading_status(gs, g, st) ==
    IF g \in Groups THEN [gs EXCEPT ![g].trading_status = st] ELSE gs

\* resume_group_if_paused: the settlement is read back and its group's trading
\* is switched to active; then approve_settlement answers success
resume_group_if_paused(t) ==
    /\ t \in inflight
    /\ inflight' = inflight \ {t}
    /\ groups' = IF t.settlement_id \in DOMAIN settlements
                 THEN toggle_trading_status(groups, settlements[t.settlement_id].group_id, "active")
                 ELSE groups
    /\ last' = [Done("approve_settlement", t.by, NULL, "ok", <<>>)
                   EXCEPT !.settlement = t.settlement_id, !.pre = t.pre]
    /\ UNCHANGED <<users, members, accounts, settlements, nops, hub>>

\* group_service.update_group with update_data = {profit_sharing_percent: p}
update_group(u, g, p) ==
    /\ Tick /\ UNCHANGED hub
    /\ groups' = [groups EXCEPT ![g].profit_sharing_percent = p]
    /\ last' = Done("update_group", u, g, "ok", <<>>)
    /\ UNCHANGED <<users, members, accounts, settlements, inflight>>

\* api/groups.py PATCH /{group_id}/status
update_group_status(u, g, st) ==
    /\ Tick /\ UNCHANGED hub
    /\ role[u] \in {"admin", "group_manager"}
    /\ groups' = [groups EXCEPT ![g].trading_status = st]
    /\ last' = Done("update_group_status", u, g, "ok", <<>>)
    /\ UNCHANGED <<users, members, accounts, settlements, inflight>>

NextSettle ==
    \/ \E u \in Users, g \in Groups, period_from \in Days, period_to \in Days :
          submit_settlement(u, g, period_from, period_to)
    \/ \E u \in Users, sid \in SettlementIds, st \in {"approved", "rejected"} :
          approve_settlement(u, sid, st)
    \/ \E t \in inflight : resume_group_if_paused(t)
    \/ \E u \in Users, g \in Groups, p \in Percents : update_group(u, g, p)
    \/ \E u \in Users, g \in Groups, st \in TradingStatuses : update_group_status(u, g, st)

SpecSettle == Init /\ [][NextSettle]_vars

----------------------------------------------------------------------------
(* Group panel: api/group_panel.py, services/mongodb_service.py *)

\* trading_groups.group_leader_id
group_leader_id == ("gA" :> "u1") @@ ("gB" :> "u2")

\* settlement documents a group leader's client can post: the handler stores
\* the request body as it is, so every field is the client's choice
ClientSettlements ==
    [status : {"pending"}, auto_pause_triggered : BOOLEAN, approved_by : {NULL},
     total_profit : {mock_profit}, period_from : {1}, period_to : {2},
     profit_share_percent : {80}, amount_due : {0, 12000}, resume_time : {NULL}]

\* POST /settlements of the group panel: the body, with group_id set to the
\* caller's group, is inserted into settlements
create_settlement_request(u, settlement_data) ==
    /\ Tick /\ UNCHANGED hub
    /\ Len(settlements) < MaxSettlements
    /\ \E g \in Groups :
          /\ group_leader_id[g] = u
          /\ settlements' = Append(settlements,
                                   [group_id |-> g] @@ settlement_data)
          /\ last' = [Done("create_settlement_request", u, g, "ok", <<>>)
                         EXCEPT !.settlement = Len(settlements) + 1]
    /\ UNCHANGED <<users, members, accounts, groups, inflight>>

NextStore ==
    \/ NextSettle
    \/ \E u \in Users, d \in ClientSettlements : create_settlement_request(u, d)

SpecStore == Init /\ [][NextStore]_vars

----------------------------------------------------------------------------
(* Event streams: services/realtime_service.py sse_endpoint, reached from   *)
(* api/realtime.py with the caller's id and the role of its user document. *)
(* Opening a stream is a request; reading an event and leaving are steps   *)
(* of the stream that was opened.                                          *)

\* the ways an event stream ends: the client goes away while the stream waits
\* for an event (the wait is cancelled), the client goes away while an event
\* is being sent (the generator is closed), or the stream raises
ExitCauses == {"error", "cancelled", "closed"}

\* event_stream up to its first wait: a new queue, registered under the role
sse_endpoint(user_id) ==
    /\ Tick
    /\ streams' = Append(streams, [user_id |-> user_id, user_role |-> role[user_id],
                                   state |-> "open", queue |-> NewQueue])
    /\ connections' = add_connection(connections, user_id, role[user_id], Len(streams) + 1)
    /\ last' = Done("sse_endpoint", user_id, NULL, "ok", <<>>)
    /\ UNCHANGED <<users, members, accounts, groups, settlements, inflight>>

\* message = await queue.get(); yield it to the client
event_stream_get(s) ==
    /\ s \in DOMAIN streams
    /\ streams[s].state = "open"
    /\ streams[s].queue.items # <<>>
    /\ streams' = [streams EXCEPT ![s].queue.items = Tail(@)]
    /\ UNCHANGED <<users, members, accounts, groups, settlements, inflight, last, nops,
                   connections>>

\* the stream leaves its loop; finally: remove_connection(user_id, user_role, queue)
event_stream_exit(s, cause) ==
    /\ s \in DOMAIN streams
    /\ streams[s].state = "open"
    /\ streams' = [streams EXCEPT ![s].state = cause]
    /\ connections' = remove_connection(connections, streams[s].user_id,
                                        streams[s].user_role, s)
    /\ UNCHANGED <<users, members, accounts, groups, settlements, inflight, last, nops>>

\* the store faults of approve_ib_proof are explored in Next; here it runs to its end
NextHub ==
    \/ \E user_id \in Users : sse_endpoint(user_id)
    \/ \E s \in DOMAIN streams : event_stream_get(s)
    \/ \E s \in DOMAIN streams, cause \in ExitCauses : event_stream_exit(s, cause)
    \/ \E u \in Users : approve_ib_proof(u, 0)
    \/ \E u \in Users, f \in 0 .. 2 : upload_ib_change_proof(u, f)
    \/ \E u \in Users, done \in 0 .. SwitchSteps, f \in 0 .. 2 :
          join_group_by_referral(u, referral_code["gA"], done, f)

SpecHub == Init /\ [][NextHub]_vars

----------------------------------------------------------------------------
(* The hub with its group broadcast: notify_group_members is part of the    *)
(* service's interface and has no caller among the request handlers, so it  *)
(* is driven directly.                                                      *)

PG(group_id, event) ==
    [group |-> group_id, what |-> event, kind |-> "publish", target |-> "members"]

broadcast_to_group(group_id) ==
    /\ Tick
    /\ LET sent == notify_group_members(streams, connections, group_id, "group_event")
       IN /\ streams' = sent.streams
          /\ last' = Done("notify_group_members", NULL, group_id, answer(0, sent),
                          <<PG(group_id, "group_event")>>)
    /\ UNCHANGED <<users, members, accounts, groups, settlements, inflight, connections>>

NextCast ==
    \/ NextHub
    \/ \E group_id \in Groups : broadcast_to_group(group_id)

SpecCast == Init /\ [][NextCast]_vars

----------------------------------------------------------------------------
(* Properties of the settlement lifecycle *)

Terminal == {"approved", "rejected"}

\* C2: when an approval resumes a group, the settlement becoming approved and
\* the group becoming active happen in one step: no step makes a settlement of
\* a paused group approved and leaves the group paused, and no step makes the
\* group of a pending settlement active on behalf of an approval while the
\* settlement is still pending.
C2_SameStep ==
    [][/\ \A s \in DOMAIN settlements :
            (/\ settlements[s].status = "pending"
             /\ settlements'[s].status = "approved"
             /\ groups[settlements[s].group_id].trading_status = "paused")
            => groups'[settlements[s].group_id].trading_status = "active"
       /\ \A t \in inflight :
            (resume_group_if_paused(t) /\ t.settlement_id \in DOMAIN settlements)
            => settlements[t.settlement_id].status # "pending"]_vars

C6_TerminalIsFinal ==
    [][/\ \A s \in DOMAIN settlements :
            settlements[s].status \in Terminal => settlements'[s] = settlements[s]
       /\ \A u \in Users, s \in DOMAIN settlements, st \in Terminal :
            (approve_settlement(u, s, st) /\ settlements[s].status \in Terminal)
            => (inflight' = inflight /\ last'.result = "error")]_vars

\* C7: an approval that found its settlement pending with auto_pause_triggered
\* set and the group paused ends with the settlement approved, the group
\* active and the settlement's resume_time set.
C7_ApproveResumes ==
    [][\A t \in inflight :
          (/\ resume_group_if_paused(t)
           /\ t.pre = [status |-> "pending", auto_pause_triggered |-> TRUE,
                       trading_status |-> "paused"])
          => /\ settlements'[t.settlement_id].status = "approved"
             /\ groups'[settlements'[t.settlement_id].group_id].trading_status = "active"
             /\ settlements'[t.settlement_id].resume_time # NULL]_vars

----------------------------------------------------------------------------
(* Properties of the membership lifecycle *)

JoinOps == {"join_group_by_referral", "join_group_by_api_key"}

\* Memberships of u that are neither left nor rejected
LiveMemberships(ms, u) ==
    {i \in DOMAIN ms : ms[i].user_id = u /\ ms[i].status \notin {"left", "rejected"}}

\* C1: every user has at most one Membership whose status is neither left nor
\* rejected, whatever joins (by referral, by API key, direct, added by an
\* admin) have been served.
C1_OneLiveMembership ==
    \A u \in Users : Cardinality(LiveMemberships(members, u)) <= 1

\* the store write an event announces
WriteOf(event) ==
    IF event \in {"group_joined", "new_group_member"} THEN "users.group_id" ELSE "users.ib_status"

\* the value the announced write must have left in the store
Announced(event, u, g) ==
    CASE event \in {"group_joined", "new_group_member"} -> users[u].group_id = g
      [] event = "ib_approved" -> users[u].ib_status = "approved"
      [] event = "ib_rejected" -> users[u].ib_status = "rejected"
      [] event = "new_ib_proof" -> users[u].ib_status = "pending"
      [] OTHER -> users[u].ib_status \in {"approved", "rejected"}

\* C3: in a group join, an IB proof upload, an IB approval and an IB rejection
\* every event is published after the store write it announces was applied,
\* and a handler whose write did not happen publishes nothing.
C3_WriteThenNotify ==
    \A i \in DOMAIN last.effects :
        last.effects[i].kind = "publish"
        => /\ \E j \in 1 .. (i - 1) : last.effects[j] = W(WriteOf(last.effects[i].what))
           /\ Announced(last.effects[i].what, last.user, last.group)

\* C3 witness: a join by referral has completed and published both its events
C3_Witness ==
    /\ last.op = "join_group_by_referral"
    /\ last.result = "ok"
    /\ \E i \in DOMAIN last.effects : last.effects[i] = P("masters", "new_group_member")

\* C4: after every completed operation a user's group_id is non-null only if
\* the user has an active Membership for that group.
C4_PointerHasActiveMembership ==
    \A u \in Users :
        users[u].group_id # NULL => users[u].group_id \in ActiveGroupsOf(members, u)

\* C8: a join (by referral or API key) to group B by a user with an active
\* Membership in another group A ends with the Membership in A left, its
\* account deactivated and the user in B; with a code that matches no group
\* it answers GroupNotFound and changes nothing.
C8_GracefulSwitch ==
    [][\A u \in Users, c \in Codes, done \in 0 .. SwitchSteps, f \in 0 .. 2 :
          (join_group_by_referral(u, c, done, f) \/ join_group_by_api_key(u, c, done, f))
          => IF last'.group = NULL
             THEN /\ last'.result = "GroupNotFound"
                  /\ UNCHANGED <<users, members, accounts>>
             ELSE last'.result = "ok"
                  => /\ users'[u].group_id = last'.group
                     /\ \A i \in DOMAIN members :
                          (/\ members[i].user_id = u
                           /\ members[i].status = "active"
                           /\ members[i].group_id # last'.group)
                          => /\ members'[i].status = "left"
                             /\ members[i].account_id # 0
                                  => accounts'[members[i].account_id].status = "inactive"]_vars

\* C9: a join answers ok only for a user whose ib_status is approved and
\* otherwise answers IBNotApproved without placing the user; and no step of
\* any operation gives a group_id or a new Membership to a user whose
\* ib_status is not approved.
C9_IbGate ==
    [][/\ (last' # last /\ last'.op \in JoinOps /\ last'.group # NULL
             /\ users[last'.user].ib_status # "approved")
          => /\ last'.result = "IBNotApproved"
             /\ users'[last'.user].group_id # last'.group
       /\ \A u \in Users :
            (\/ users'[u].group_id \notin {NULL, users[u].group_id}
             \/ /\ Len(members') > Len(members)
                /\ members'[Len(members')].user_id = u)
            => users[u].ib_status = "approved"]_vars

\* C10: a join by a valid referral code by an IB-approved user without a
\* Membership creates a pending Membership for the group; approving a pending
\* Membership makes it active and raises its group's active_members by one.
C10_JoinThenApprove ==
    [][/\ \A u \in Users, c \in Codes, f \in 0 .. 2 :
            (/\ join_group_by_referral(u, c, SwitchSteps, f)
             /\ last'.result = "ok"
             /\ LiveMemberships(members, u) = {})
            => \E i \in DOMAIN members' :
                   /\ members'[i].user_id = u
                   /\ members'[i].group_id = last'.group
                   /\ members'[i].status = "pending"
       /\ \A u \in Users, m \in DOMAIN members :
            (approve_member(u, m) /\ members[m].status = "pending")
            => /\ members'[m].status = "active"
               /\ groups'[members[m].group_id].active_members
                    = groups[members[m].group_id].active_members + 1]_vars

\* C11: an approval of a member directly after a successful approval of the
\* same member succeeds, leaves the member record, the accounts, the groups
\* and the users as they were, and publishes nothing.
C11_ApproveIdempotent ==
    [][\A u \in Users, m \in DOMAIN members :
          (/\ approve_member(u, m)
           /\ last.op = "approve_member" /\ last.result = "ok" /\ last.member = m)
          => /\ last'.result = "ok"
             /\ last'.effects = <<>>
             /\ members' = members
             /\ UNCHANGED <<accounts, groups, users>>]_vars

\* C12: after a successful leave (of a named group or of the current group)
\* the user's group_id is cleared, every Membership of the user in that group
\* has status left and its linked trading account is inactive.
C12_LeaveIsComplete ==
    (last.op \in {"leave_current_group", "leave_group"} /\ last.result = "ok")
    => /\ users[last.user].group_id = NULL
       /\ \A i \in DOMAIN members :
            (members[i].user_id = last.user /\ members[i].group_id = last.group)
            => /\ members[i].status = "left"
               /\ members[i].account_id # 0
                    => accounts[members[i].account_id].status = "inactive"

\* C13: of two conflicting decisions on one member (an approval and a
\* rejection, or two approvals) exactly one is applied: a decision that finds
\* the member already moved out of pending by the other one fails
\* ConcurrentModification when it would overwrite the status, and leaves the
\* member record as the winner wrote it.
C13_ConditionalUpdate ==
    [][\A u \in Users, m \in DOMAIN members :
          /\ ((\/ approve_member(u, m) /\ members[m].status = "rejected"
               \/ reject_member(u, m) /\ members[m].status = "active")
              => last'.result = "ConcurrentModification")
          /\ ((approve_member(u, m) \/ reject_member(u, m))
                /\ members[m].status \in {"active", "rejected"}
              => members'[m] = members[m])]_vars

\* C14: a suspended group becomes active only in a step that is a
\* trading-status request by an admin; the resume of a settlement approval (the
\* system actor) and requests by other actors leave a suspended group
\* suspended and fail InsufficientPrivilege.
C14_SuspendedNeedsAdmin ==
    [][/\ \A g \in Groups :
            (groups[g].trading_status = "suspended" /\ groups'[g].trading_status = "active")
            => \E u \in Users : role[u] = "admin" /\ update_group_status(u, g, "active")
       /\ \A t \in inflight :
            (/\ resume_group_if_paused(t)
             /\ t.settlement_id \in DOMAIN settlements
             /\ groups[settlements[t.settlement_id].group_id].trading_status = "suspended")
            => last'.result = "InsufficientPrivilege"]_vars

\* C15: a rejection of a pending settlement answers success, leaves the
\* settlement rejected and leaves every group's trading_status as it was.
C15_RejectDoesNotResume ==
    [][\A u \in Users, sid \in DOMAIN settlements :
          (approve_settlement(u, sid, "rejected") /\ settlements[sid].status = "pending")
          => /\ settlements'[sid].status = "rejected"
             /\ groups' = groups
             /\ inflight' = inflight
             /\ last'.result = "ok"]_vars

----------------------------------------------------------------------------
(* Realtime hub properties *)

\* every queue some registry holds
Registered(conns) ==
    UNION {conns.admin_connections[u] \cup conns.user_connections[u]
               \cup conns.master_connections[u] : u \in Users}

\* stream s is registered where a publish to target looks for its queues
IsTarget(conns, s, target) ==
    IF target = "admins" THEN \E u \in Users : s \in conns.admin_connections[u]
    ELSE IF target = "masters" THEN \E u \in Users : s \in conns.master_connections[u]
    ELSE s \in conns.user_connections[target]

\* the events a handler's publishes address to stream s, in program order
RECURSIVE EventsFor(_, _, _)
EventsFor(conns, s, eff) ==
    IF eff = <<>> THEN <<>>
    ELSE (IF Head(eff).kind = "publish" /\ IsTarget(conns, s, Head(eff).target)
          THEN <<Head(eff).what>> ELSE <<>>) \o EventsFor(conns, s, Tail(eff))

\* a step in which a handler ran at least one publish
Publishes == nops' # nops /\ \E i \in DOMAIN last'.effects : last'.effects[i].kind = "publish"

\* C16: every channel's queue has a fixed bounded capacity that its length never
\* exceeds (a publish onto a full queue makes room by dropping the oldest event
\* and counting the drop)
C16_BoundedQueue ==
    \A s \in DOMAIN streams :
        /\ streams[s].queue.maxsize > 0
        /\ Len(streams[s].queue.items) <= streams[s].queue.maxsize

\* C17: a publish always completes, whatever the consumers do: no publishing
\* handler is left suspended in a put, and every registered target's queue has
\* the handler's events when the handler's step is over, however many events
\* any queue holds undrained
C17_PublishCompletes ==
    [][Publishes =>
          /\ last'.result # "suspended"
          /\ \A s \in DOMAIN streams :
                Len(streams'[s].queue.items) =
                    Len(streams[s].queue.items) + Len(EventsFor(connections, s, last'.effects))]_vars

\* a publish completed while one subscriber held a backlog it had not drained,
\* and another subscriber of the same registry, with a shorter queue, got the event
C17_Witness ==
    /\ last.result = "ok"
    /\ \E i \in DOMAIN last.effects : last.effects[i] = P("admins", "new_ib_proof")
    /\ \E s1, s2 \in DOMAIN streams :
          /\ s1 # s2
          /\ IsTarget(connections, s1, "admins") /\ IsTarget(connections, s2, "admins")
          /\ Len(streams[s1].queue.items) >= 2
          /\ streams[s2].queue.items = <<"new_ib_proof">>

\* C18: a stream that has ended, by whichever exit, has its channel in no
\* registry, and from then on no publish puts anything on its queue
C18_EndedStreamUnregistered ==
    [][\A s \in DOMAIN streams' :
          streams'[s].state # "open" =>
              /\ s \notin Registered(connections')
              /\ (s \in DOMAIN streams /\ streams[s].state # "open")
                     => streams'[s] = streams[s]]_vars

\* streams have ended by each of the exits, one of them an admin's, and an
\* event for the admins was published afterwards
C18_Witness ==
    /\ \A cause \in ExitCauses : \E s \in DOMAIN streams : streams[s].state = cause
    /\ \E s \in DOMAIN streams :
          /\ streams[s].state # "open"
          /\ streams[s].user_role = "admin"
          /\ streams[s].queue.items = <<>>
    /\ last.result = "ok"
    /\ \E i \in DOMAIN last.effects : last.effects[i] = P("admins", "new_ib_proof")

\* C19: notification never makes a lifecycle operation fail: a join or an IB
\* proof upload whose store write was applied answers success, whether or not
\* anyone is subscribed
C19_WriteImpliesSuccess ==
    (/\ last.op \in JoinOps \cup {"upload_ib_change_proof"}
     /\ \/ Wrote(last.effects, "users.group_id")
        \/ Wrote(last.effects, "users.ib_status"))
    => /\ last.result = "ok"
       /\ last.op \in JoinOps => users[last.user].group_id = last.group
       /\ last.op = "upload_ib_change_proof" => users[last.user].ib_status = "pending"

\* C20: streams may be opened and ended in any order around a publish: the
\* publish is never left in progress and never fails because the registries
\* changed, it leaves the registries as it found them, and every stream gets
\* exactly the handler's events addressed to a registry it is in, once each,
\* and no others
C20_ExactlyOnce ==
    [][Publishes =>
          /\ last'.result = "ok"
          /\ connections' = connections
          /\ \A s \in DOMAIN streams :
                streams'[s].queue.items =
                    streams[s].queue.items \o EventsFor(connections, s, last'.effects)]_vars

\* an admin's stream was opened, ended, and another opened before the publish:
\* the ended one has nothing, the open one has the event once
C20_Witness ==
    /\ last.result = "ok"
    /\ \E i \in DOMAIN last.effects : last.effects[i] = P("admins", "ib_proof_processed")
    /\ \E s1, s2 \in DOMAIN streams :
          /\ s1 < s2
          /\ streams[s1].user_role = "admin" /\ streams[s2].user_role = "admin"
          /\ streams[s1].state # "open" /\ streams[s1].queue.items = <<>>
          /\ streams[s2].state = "open"
          /\ streams[s2].queue.items = <<"ib_proof_processed">>

\* an open stream of a subscriber the publish is meant for
Matches(s, e) ==
    /\ streams[s].state = "open"
    /\ IF e.target = "admins" THEN streams[s].user_role = "admin"
       ELSE IF e.target = "masters" THEN streams[s].user_role = "master"
       ELSE IF e.target = "members"
            THEN \/ users[streams[s].user_id].group_id = e.group
                 \/ e.group \in ActiveGroupsOf(members, streams[s].user_id)
       ELSE streams[s].user_id = e.target

RECURSIVE MatchingEvents(_, _)
MatchingEvents(s, eff) ==
    IF eff = <<>> THEN <<>>
    ELSE (IF Head(eff).kind = "publish" /\ Matches(s, Head(eff))
          THEN <<Head(eff).what>> ELSE <<>>) \o MatchingEvents(s, Tail(eff))

\* C21: a publish puts its event on every matching live channel and on no
\* other: a user's event on that user's channels, a role's event on the channels
\* subscribed with that role, a group's event on the channels of the group's
\* members
C21_OnlyMatchingChannels ==
    [][Publishes =>
          \A s \in DOMAIN streams :
              streams'[s].queue.items = streams[s].queue.items \o MatchingEvents(s, last'.effects)]_vars

\* C22: every change of a group's trading_status, through the status endpoint
\* or by the resume of a settlement approval, comes with an event published to
\* the members of the group and one published to the admins
C22_StatusChangeAnnounced ==
    [][\A g \in Groups :
          groups'[g].trading_status # groups[g].trading_status =>
              /\ \E i \in DOMAIN last'.effects :
                    /\ last'.effects[i].kind = "publish"
                    /\ last'.effects[i].target = "members"
                    /\ last'.effects[i].group = g
              /\ \E i \in DOMAIN last'.effects :
                    /\ last'.effects[i].kind = "publish"
                    /\ last'.effects[i].target = "admins"]_vars

\* group g has a pending settlement that records an auto-pause
AutoPaused(ss, g) ==
    \E sid \in DOMAIN ss :
        /\ ss[sid].group_id = g
        /\ ss[sid].status = "pending"
        /\ ss[sid].auto_pause_triggered

\* C23: auto-pause is the submission's own transition of the group to paused,
\* recorded on the settlement as auto_pause_triggered, and only the approval of
\* a settlement takes the group out of it: a settlement is stored with the flag
\* set only in a step that leaves its group paused, and a group paused under
\* such a settlement is made active by nothing but the resume of an approval
C23_AutoPause ==
    [][/\ (/\ Len(settlements') = Len(settlements) + 1
           /\ settlements'[Len(settlements')].auto_pause_triggered)
          => groups'[settlements'[Len(settlements')].group_id].trading_status = "paused"
       /\ \A g \in Groups :
             (/\ AutoPaused(settlements, g)
              /\ groups[g].trading_status = "paused"
              /\ groups'[g].trading_status # "paused")
             => \E t \in inflight :
                   /\ resume_group_if_paused(t)
                   /\ t.settlement_id \in DOMAIN settlements
                   /\ settlements[t.settlement_id].group_id = g]_vars

\* C24: calculation and submission refuse a period that ends before it starts:
\* no stored settlement has period_to earlier than period_from
C24_ValidPeriod ==
    \A sid \in DOMAIN settlements : settlements[sid].period_from <= settlements[sid].period_to

\* C25: a join whose graceful switch failed at a sub-step after an earlier
\* sub-step was applied stops there and answers PartialFailure; it does not go
\* on to place the user and answer success
C25_PartialFailure ==
    (/\ last.op \in JoinOps
     /\ Wrote(last.effects, "members.status")
     /\ ~Wrote(last.effects, "users.group_id.unset"))
    => /\ last.result = "PartialFailure"
       /\ ~Wrote(last.effects, "users.group_id")

\* the membership operations
MembershipOps ==
    JoinOps \cup {"join_group", "leave_current_group", "leave_group", "approve_member",
                  "reject_member", "add_member_to_group", "update_account_status"}

\* C26: a group's counters are derived: after every completed membership
\* operation active_members is the number of the group's memberships with status
\* active and total_members the number of its memberships that are not
\* terminated (neither left nor rejected)
C26_DerivedCounters ==
    (last.op \in MembershipOps /\ last.result = "ok")
    => \A g \in Groups :
          /\ groups[g].active_members =
                 Cardinality({i \in DOMAIN members :
                                 members[i].group_id = g /\ members[i].status = "active"})
          /\ groups[g].total_members =
                 Cardinality({i \in DOMAIN members :
                                 members[i].group_id = g /\ members[i].status \notin {"left", "rejected"}})

\* C27: approval resumes trading only for a settlement that recorded an
\* auto-pause: the resume of an approved settlement whose auto_pause_triggered
\* is false leaves the trading_status of every group as it was
C27_ResumeOnlyIfAutoPaused ==
    [][\A t \in inflight :
          (/\ resume_group_if_paused(t)
           /\ t.settlement_id \in DOMAIN settlements
           /\ ~settlements[t.settlement_id].auto_pause_triggered)
          => \A g \in Groups : groups'[g].trading_status = groups[g].trading_status]_vars

\* C28: the graceful switch is one unit with the join: a join by a user whose
\* group_id points at a group, and which does not answer success, leaves the
\* user's group_id, every Membership and every account as they were
C28_SwitchIsAtomic ==
    [][(/\ nops' # nops
        /\ last'.op \in JoinOps
        /\ last'.prev_group # NULL
        /\ last'.result # "ok")
       => UNCHANGED <<users, members, accounts>>]_vars

\* C29: an approval answers success only when the settlement it names exists
\* and this call changed its status to approved; for an unknown settlement_id it
\* answers NotFound and changes no settlement and no group
C29_ApproveKnownSettlement ==
    [][\A t \in inflight :
          resume_group_if_paused(t)
          => IF t.settlement_id \in DOMAIN settlements
             THEN last'.result = "ok"
                  => /\ settlements'[t.settlement_id].status = "approved"
                     /\ t.pre.status # "approved"
             ELSE /\ last'.result = "NotFound"
                  /\ UNCHANGED <<settlements, groups>>]_vars

\* the streams of subscriber u that are open and were opened with a role that
\* belongs in registry reg
OpenStreams(reg, u) ==
    {s \in DOMAIN streams :
        /\ streams[s].state = "open"
        /\ streams[s].user_id = u
        /\ reg = (IF streams[s].user_role = "admin" THEN "admin_connections"
                  ELSE IF streams[s].user_role = "master" THEN "master_connections"
                  ELSE "user_connections")}

\* C30: whatever streams were opened and ended and whatever was published, the
\* registries hold exactly the queues of the streams that are open, each under
\* its subscriber's id in the registry of the role it was opened with; so the
\* end of one of a subscriber's streams leaves the subscriber's others registered
C30_RegistryExact ==
    \A reg \in {"admin_connections", "user_connections", "master_connections"}, u \in Users :
        connections[reg][u] = OpenStreams(reg, u)

\* a subscriber had two streams, one ended, and the other is still registered
\* and got the event published afterwards
C30_Witness ==
    /\ last.result = "ok"
    /\ \E i \in DOMAIN last.effects : last.effects[i] = P("admins", "new_ib_proof")
    /\ \E s1, s2 \in DOMAIN streams :
          /\ s1 # s2
          /\ streams[s1].user_id = streams[s2].user_id
          /\ streams[s1].state # "open" /\ streams[s1].queue.items = <<>>
          /\ streams[s2].state = "open" /\ streams[s2].queue.items = <<"new_ib_proof">>
          /\ connections.admin_connections[streams[s2].user_id] = {s2}

====
